---------------------------- MODULE Spec2Model ----------------------------
(***************************************************************************)
(* A model of the two notebooks of XBUS-506-01.Visual_Analytics:           *)
(*   select/feature_selection.ipynb  the dataset fetcher (download_data,   *)
(*       download_all), the load cells and the feature/label selections;   *)
(*   pyplot/pyplot.ipynb             the cell that saves quadratics.png.   *)
(* The filesystem is a function from paths (sequences of components) to    *)
(* entries; a path outside its domain does not exist.  File contents are   *)
(* sequences of bytes.                                                     *)
(***************************************************************************)
EXTENDS Integers, Sequences, FiniteSets, TLC

VARIABLES
    fs,        \* the filesystem: path -> entry
    fs0,       \* the filesystem before the run (history variable)
    pc,        \* position of the feature-selection notebook
    failedAt,  \* the step whose exception aborted it, "none" otherwise
    i,         \* download_all's loop index (0: download_data called on its own)
    url,       \* download_data's arguments
    name,
    path,
    response,  \* download_data's local `response`
    z,         \* download_all's local `z`: the members of the opened archive
    trace,     \* events of the run of download_all (history variable)
    written,   \* paths the feature-selection notebook created or wrote (history)
    got,       \* url -> body of the response received for it (history)
    columns,   \* table -> column names assigned after load
    features,  \* table -> feature columns selected
    labels,    \* table -> label column selected
    ppc,       \* position of the plotting notebook
    pwritten,  \* paths the plotting notebook created or wrote (history)
    kernel,    \* the names model, sfm, pca, lda, new_features of the kernel
    out        \* what the model-fitting cell run last printed

vars == <<fs, fs0, pc, failedAt, i, url, name, path, response, z, trace,
          written, got, columns, features, labels, ppc, pwritten, kernel, out>>

---------------------------------------------------------------------------
(* Bounds *)

\* longest HTTP response body, in bytes
MaxLen == 3
\* how many times in succession download_all is called when it is called again
MaxRuns == 2

Byte == {0, 1}

SeqsUpTo(S, n) == UNION {[1..k -> S] : k \in 0..n}

Bodies == SeqsUpTo(Byte, MaxLen)

---------------------------------------------------------------------------
(* Program constants *)

OCCUPANCY == <<"http://bit.ly/ddl-occupancy-dataset", "occupancy.zip">>
CREDIT == <<"http://bit.ly/ddl-credit-dataset", "credit.xls">>
CONCRETE == <<"http://bit.ly/ddl-concrete-data", "concrete.xls">>

\* the tuple download_all iterates over
DatasetsReversed == <<CONCRETE, CREDIT, OCCUPANCY>>
DatasetsCrossed ==
    <<OCCUPANCY, <<CREDIT[1], CONCRETE[2]>>, <<CONCRETE[1], CREDIT[2]>>>>
Datasets == <<OCCUPANCY, CREDIT, CONCRETE>>

\* path = 'data', the argument of the notebook's call download_all(path)
NotebookPathOther == <<"datasets">>
NotebookPath == <<"data">>

\* the archive download_all opens, relative to its path
ArchiveName == "occupancy.zip"

\* the subdirectory download_all extracts into
ExtractDirFlat(p) == p
ExtractDir(p) == Append(p, "occupancy")

FigurePathPdf == <<"figures", "myfig.pdf">>
FigurePath == <<"figures", "quadratics.png">>

---------------------------------------------------------------------------
(* The filesystem *)

Dir == [kind |-> "dir", content |-> <<>>]
File(c) == [kind |-> "file", content |-> c]

\* os.path.join(path, name)
Join(p, n) == Append(p, n)

Parent(p) == SubSeq(p, 1, Len(p) - 1)

\* os.path.exists
Exists(f, p) == p \in DOMAIN f

IsDir(f, p) == p \in DOMAIN f /\ f[p].kind = "dir"
IsFile(f, p) == p \in DOMAIN f /\ f[p].kind = "file"

\* the directory a new entry p would be created in exists (the working
\* directory itself always does)
ParentIsDir(f, p) == Len(p) = 1 \/ IsDir(f, Parent(p))

Put(f, p, e) == (p :> e) @@ f

\* os.mkdir(p) can succeed: nothing at p, and its parent is a directory
CanMkdir(f, p) == ~Exists(f, p) /\ ParentIsDir(f, p)

\* open(p, 'wb') can succeed: p's parent is a directory and p is no directory
CanOpenW(f, p) == ParentIsDir(f, p) /\ ~IsDir(f, p)

\* open(p, 'ab'): the file keeps what it held
OpenAB(f, p) == IF IsFile(f, p) THEN f ELSE Put(f, p, File(<<>>))
\* open(p, 'wb'): the file is created or truncated
OpenWB(f, p) == Put(f, p, File(<<>>))

\* f.write(data) on the file open at p, positioned at its end
WriteTo(f, p, data) == Put(f, p, File(f[p].content \o data))

\* os.makedirs(p, exist_ok=True) for a p at most one level below an existing
\* directory, as zipfile's extraction does for its target
CanMakedirsNew(f, p) == CanMkdir(f, p)
CanMakedirs(f, p) == IsDir(f, p) \/ CanMkdir(f, p)
Makedirs(f, p) == IF IsDir(f, p) THEN f ELSE Put(f, p, Dir)

FilesOf(f) == {p \in DOMAIN f : f[p].kind = "file"}

---------------------------------------------------------------------------
(* HTTP responses *)

StatusCodes == {200, 404}

Responses(u) ==
    IF u = OCCUPANCY[1]
        THEN [status : StatusCodes, content : Bodies]
        ELSE [status : StatusCodes, content : {b \in Bodies : Len(b) = 1}]

NoResponse == [status |-> 0, content |-> <<>>]

---------------------------------------------------------------------------
(* Zip archives.  A body is an archive when it starts with the magic byte  *)
(* and is followed by (name, content) byte pairs, one per member; the name *)
(* byte selects the member's file name.  Anything else is not an archive   *)
(* and zipfile.ZipFile raises BadZipFile on it.                            *)

ZipMagic == 0

MemberName(b) == IF b = 0 THEN "datatraining.txt" ELSE "credit.xls"

IsZip(b) == Len(b) >= 1 /\ b[1] = ZipMagic /\ (Len(b) - 1) % 2 = 0

\* the members of an archive, in the archive's order
ZipMembers(b) ==
    [k \in 1..((Len(b) - 1) \div 2) |->
        [name |-> MemberName(b[2 * k]), content |-> <<b[2 * k + 1]>>]]

\* extraction of the first n members of zs into directory d
RECURSIVE ExtractInto(_, _, _, _)
ExtractInto(f, d, zs, n) ==
    IF n = 0 THEN f
    ELSE LET g == ExtractInto(f, d, zs, n - 1)
         IN  Put(g, Join(d, zs[n].name), File(zs[n].content))

\* every member of zs can be written into d
CanExtract(f, d, zs) ==
    \A k \in 1..Len(zs) : ~IsDir(f, Join(d, zs[k].name))

MemberPaths(d, zs) == {Join(d, zs[k].name) : k \in 1..Len(zs)}

---------------------------------------------------------------------------
(* The tables of the feature-selection notebook *)

OccupancyColumns ==
    <<"date", "temp", "humid", "light", "co2", "hratio", "occupied">>

OccupancyFeaturesWithLabel ==
    <<"temp", "humid", "light", "co2", "hratio", "occupied">>
OccupancyFeatures == <<"temp", "humid", "light", "co2", "hratio">>

OccupancyLabel == "occupied"

CreditColumns ==
    <<"id", "limit", "sex", "edu", "married", "age", "apr_delay", "may_delay",
      "jun_delay", "jul_delay", "aug_delay", "sep_delay", "apr_bill",
      "may_bill", "jun_bill", "jul_bill", "aug_bill", "sep_bill", "apr_pay",
      "may_pay", "jun_pay", "jul_pay", "aug_pay", "sep_pay", "default">>

CreditFeatures ==
    <<"limit", "sex", "edu", "married", "age", "apr_delay", "may_delay",
      "jun_delay", "jul_delay", "aug_delay", "sep_delay", "apr_bill",
      "may_bill", "jun_bill", "jul_bill", "aug_bill", "sep_bill", "apr_pay",
      "may_pay", "jun_pay", "jul_pay", "aug_pay", "sep_pay">>

CreditLabel == "default"

ConcreteColumns ==
    <<"cement", "slag", "ash", "water", "splast", "coarse", "fine", "age",
      "strength">>

ConcreteFeatures ==
    <<"cement", "slag", "ash", "water", "splast", "coarse", "fine", "age">>

ConcreteLabel == "strength"

Tables == {"occupancy", "credit", "concrete"}

Range(s) == {s[k] : k \in 1..Len(s)}

\* table[[c1, c2, ...]] and table[c]: pandas raises KeyError for a name that
\* is not a column of the table
CanSelect(cols, feats, lab) == Range(feats) \subseteq Range(cols) /\ lab \in Range(cols)

\* the files the load cells read
OccupancyFile == <<"data", "occupancy", "datatraining.txt">>
CreditFile == <<"data", "credit.xls">>
ConcreteFile == <<"data", "concrete.xls">>

\* what plt.savefig renders: some fixed non-empty image
RenderedImage == <<1, 0, 1, 0>>

---------------------------------------------------------------------------
(* Initial filesystems: the working directory before the run.  `data` may  *)
(* be missing, a regular file or a directory left by an earlier run;       *)
(* `figures` may be missing or present, with or without an earlier image.  *)

OldContent == <<1, 1>>

EmptyFS == [p \in {} |-> Dir]

FilesIn(d, names) == [p \in {Join(d, n) : n \in names} |-> File(OldContent)]

OldDownloads ==
    {{}, {"credit.xls"}, {"occupancy.zip", "credit.xls", "concrete.xls"}}

OldOccupancy ==
    { EmptyFS,
      (<<"data", "occupancy">> :> File(OldContent)),
      (<<"data", "occupancy">> :> Dir),
      (<<"data", "occupancy">> :> Dir) @@
          FilesIn(<<"data", "occupancy">>, {"datatraining.txt"}) }

DataTrees ==
    { EmptyFS, (<<"data">> :> File(OldContent)) } \cup
    { (<<"data">> :> Dir) @@ FilesIn(<<"data">>, ns) @@ occ :
          ns \in OldDownloads, occ \in OldOccupancy }

FigureTrees ==
    { EmptyFS,
      (<<"figures">> :> File(OldContent)),
      (<<"figures">> :> Dir),
      (<<"figures">> :> Dir) @@ (FigurePath :> File(OldContent)) }

InitialFilesystems == {d @@ f : d \in DataTrees, f \in FigureTrees}

---------------------------------------------------------------------------
(* The state before either notebook runs *)

\* the names the model-fitting cells assign
Names == {"model", "sfm", "pca", "lda", "new_features"}

\* a name that no cell has bound yet (reading it raises NameError)
Unbound == [class |-> "NameError", params |-> "", cell |-> "none", fit |-> <<>>]

NoBindings == [v \in Names |-> Unbound]
NoOutput == [cell |-> "none", value |-> [by |-> Unbound]]

NoTables == [t \in Tables |-> <<>>]
NoLabels == [t \in Tables |-> ""]

InitCommon ==
    /\ fs \in InitialFilesystems
    /\ fs0 = fs
    /\ failedAt = "none"
    /\ response = NoResponse
    /\ z = <<>>
    /\ trace = <<>>
    /\ written = {}
    /\ got = EmptyFS
    /\ columns = NoTables
    /\ features = NoTables
    /\ labels = NoLabels
    /\ pwritten = {}
    /\ kernel = NoBindings
    /\ out = NoOutput

\* both notebooks are about to run, top to bottom
Init ==
    /\ InitCommon
    /\ pc = "fetch"
    /\ i = 1
    /\ url = ""
    /\ name = ""
    /\ path = NotebookPath
    /\ ppc = "pp_start"

args == <<url, name, path>>
tables == <<columns, features, labels>>
plot == <<ppc, pwritten>>
fitted == <<kernel, out>>

---------------------------------------------------------------------------
(* Exceptions.  Neither notebook has a try statement: an exception raised  *)
(* by a step propagates out of download_data, download_all and the cell,   *)
(* and a top-to-bottom run stops there.                                    *)

RaiseSwallowed(step) == failedAt' = step /\ pc' = "loop"
Raise(step) == failedAt' = step /\ pc' = "aborted"

---------------------------------------------------------------------------
(* download_all: the loop over the three dataset tuples *)

SameIndex(k) == k
NextIndex(k) == k + 1

\* for href, name in (OCCUPANCY, CREDIT, CONCRETE): download_data(href, name, path)
ForLoop ==
    /\ pc = "loop"
    /\ IF i <= Len(Datasets)
          THEN /\ url' = Datasets[i][1]
               /\ name' = Datasets[i][2]
               /\ pc' = "dd_dir"
          ELSE /\ pc' = "zip_open"
               /\ UNCHANGED <<url, name>>
    /\ UNCHANGED <<fs, fs0, failedAt, i, path, response, z, trace, written,
                   got, tables, plot, fitted>>

\* the cell's call download_all(path)
CallDownloadAll ==
    /\ pc = "fetch"
    /\ pc' = "loop"
    /\ UNCHANGED <<fs, fs0, failedAt, i, args, response, z, trace, written,
                   got, tables, plot, fitted>>

---------------------------------------------------------------------------
(* download_data(url, name, path) *)

Target == Join(path, name)

\* if not os.path.exists(path): os.mkdir(path)   -- the directory is there,
\* or is made
DDEnsureDir ==
    /\ pc = "dd_dir"
    /\ IF Exists(fs, path)
          THEN UNCHANGED <<fs, written>>
          ELSE /\ CanMkdir(fs, path)
               /\ fs' = Put(fs, path, Dir)
               /\ written' = written \cup {path}
    /\ pc' = "dd_request"
    /\ UNCHANGED <<fs0, failedAt, i, args, response, z, trace, got,
                   tables, plot, fitted>>

\* os.mkdir raises: the parent is missing, or the directory may not be made
DDMkdirFail ==
    /\ pc = "dd_dir"
    /\ ~Exists(fs, path)
    /\ Raise("mkdir")
    /\ UNCHANGED <<fs, fs0, i, args, response, z, trace, written, got,
                   tables, plot, fitted>>

DDRequestFileOpened ==
    /\ pc = "dd_request"
    /\ fs' = IF CanOpenW(fs, Target) THEN OpenWB(fs, Target) ELSE fs
    /\ trace' = Append(trace, <<"GET", url>>)
    /\ pc' = "dd_get"
    /\ UNCHANGED <<fs0, failedAt, i, args, response, z, written, got,
                   tables, plot, fitted>>

\* requests.get(url) sends the request and blocks; no timeout is given
DDRequest ==
    /\ pc = "dd_request"
    /\ trace' = Append(trace, <<"GET", url>>)
    /\ pc' = "dd_get"
    /\ UNCHANGED <<fs, fs0, failedAt, i, args, response, z, written, got,
                   tables, plot, fitted>>

GetReturnStatusRaised ==
    /\ pc = "dd_get"
    /\ \E r \in Responses(url) :
          /\ response' = r
          /\ got' = (url :> r.content) @@ got
          /\ IF r.status = 200
                THEN pc' = "dd_open" /\ UNCHANGED failedAt
                ELSE Raise("get")
    /\ UNCHANGED <<fs, fs0, i, args, z, trace, written, tables, plot, fitted>>

\* the server answers: requests.get returns the response, whatever its status
GetReturn ==
    /\ pc = "dd_get"
    /\ \E r \in Responses(url) :
          /\ response' = r
          /\ got' = (url :> r.content) @@ got
    /\ pc' = "dd_open"
    /\ UNCHANGED <<fs, fs0, failedAt, i, args, z, trace, written,
                   tables, plot, fitted>>

\* requests.get raises (no route, connection reset, ...)
GetRaise ==
    /\ pc = "dd_get"
    /\ Raise("get")
    /\ UNCHANGED <<fs, fs0, i, args, response, z, trace, written, got,
                   tables, plot, fitted>>

\* with open(os.path.join(path, name), 'wb') as f:
DDOpen ==
    /\ pc = "dd_open"
    /\ CanOpenW(fs, Target)
    /\ fs' = OpenWB(fs, Target)
    /\ written' = written \cup {Target}
    /\ pc' = "dd_write"
    /\ UNCHANGED <<fs0, failedAt, i, args, response, z, trace, got,
                   tables, plot, fitted>>

\* open raises: path is no directory, the target is one, or access is denied
DDOpenFail ==
    /\ pc = "dd_open"
    /\ Raise("open")
    /\ UNCHANGED <<fs, fs0, i, args, response, z, trace, written, got,
                   tables, plot, fitted>>

\* f.write(response.content), the file is closed, download_data returns
DDWrite ==
    /\ pc = "dd_write"
    /\ fs' = WriteTo(fs, Target, response.content)
    /\ trace' = Append(trace, <<"write", name>>)
    /\ IF i = 0
          THEN pc' = "dd_returned" /\ i' = i
          ELSE pc' = "loop" /\ i' = NextIndex(i)
    /\ UNCHANGED <<fs0, failedAt, args, response, z, written, got,
                   tables, plot, fitted>>

\* the write or the close raises (disk full): a prefix of the body is on disk
DDWriteFail ==
    /\ pc = "dd_write"
    /\ \E k \in 0..Len(response.content) :
          fs' = WriteTo(fs, Target, SubSeq(response.content, 1, k))
    /\ Raise("write")
    /\ UNCHANGED <<fs0, i, args, response, z, trace, written, got,
                   tables, plot, fitted>>

---------------------------------------------------------------------------
(* download_all: the extraction of the occupancy archive *)

Archive == Join(path, ArchiveName)

\* z = zipfile.ZipFile(os.path.join(path, 'occupancy.zip'))
ZipOpen ==
    /\ pc = "zip_open"
    /\ IsFile(fs, Archive)
    /\ IsZip(fs[Archive].content)
    /\ z' = ZipMembers(fs[Archive].content)
    /\ pc' = "extract"
    /\ UNCHANGED <<fs, fs0, failedAt, i, args, response, trace, written, got,
                   tables, plot, fitted>>

\* ZipFile raises: the file is no archive (BadZipFile) or cannot be read
ZipOpenFail ==
    /\ pc = "zip_open"
    /\ Raise("zip")
    /\ UNCHANGED <<fs, fs0, i, args, response, z, trace, written, got,
                   tables, plot, fitted>>

\* z.extractall(os.path.join(path, 'occupancy')); download_all returns
ExtractAll ==
    /\ pc = "extract"
    /\ LET d == ExtractDir(path)
       IN  /\ CanMakedirs(fs, d)
           /\ CanExtract(fs, d, z)
           /\ fs' = ExtractInto(Makedirs(fs, d), d, z, Len(z))
           /\ written' = written \cup MemberPaths(d, z)
                             \cup (IF IsDir(fs, d) THEN {} ELSE {d})
    /\ trace' = Append(trace, <<"extract", ArchiveName>>)
    /\ pc' = "returned"
    /\ UNCHANGED <<fs0, failedAt, i, args, response, z, got,
                   tables, plot, fitted>>

\* extractall raises: the target cannot be made, or a member cannot be
\* written; the members before it are on disk
ExtractFail ==
    /\ pc = "extract"
    /\ LET d == ExtractDir(path)
       IN  IF CanMakedirs(fs, d)
              THEN \E k \in 0..Len(z) :
                      LET zs == SubSeq(z, 1, k)
                      IN  /\ CanExtract(fs, d, zs)
                          /\ fs' = ExtractInto(Makedirs(fs, d), d, zs, k)
                          /\ written' = written \cup MemberPaths(d, zs)
                                 \cup (IF IsDir(fs, d) THEN {} ELSE {d})
              ELSE UNCHANGED <<fs, written>>
    /\ trace' = Append(trace, <<"extract", ArchiveName>>)
    /\ Raise("extract")
    /\ UNCHANGED <<fs0, i, args, response, z, got, tables, plot, fitted>>

---------------------------------------------------------------------------
(* The cells after the fetch: load, rename the columns by position, select *)

\* occupancy = pd.read_csv(...); occupancy.columns = [...]
LoadOccupancy ==
    /\ pc = "returned"
    /\ IsFile(fs, OccupancyFile)
    /\ columns' = [columns EXCEPT !["occupancy"] = OccupancyColumns]
    /\ pc' = "select"
    /\ UNCHANGED <<fs, fs0, failedAt, i, args, response, z, trace, written,
                   got, features, labels, plot, fitted>>

\* the file is missing, is no csv, or has another number of columns
LoadOccupancyFail ==
    /\ pc = "returned"
    /\ Raise("load_occupancy")
    /\ UNCHANGED <<fs, fs0, i, args, response, z, trace, written, got,
                   tables, plot, fitted>>

\* features = occupancy[[...]]; labels = occupancy['occupied']
SelectOccupancy ==
    /\ pc = "select"
    /\ IF CanSelect(columns["occupancy"], OccupancyFeatures, OccupancyLabel)
          THEN /\ features' = [features EXCEPT !["occupancy"] = OccupancyFeatures]
               /\ labels' = [labels EXCEPT !["occupancy"] = OccupancyLabel]
               /\ pc' = "load_credit"
               /\ UNCHANGED failedAt
          ELSE /\ Raise("select")
               /\ UNCHANGED <<features, labels>>
    /\ UNCHANGED <<fs, fs0, i, args, response, z, trace, written, got,
                   columns, plot, fitted>>

\* credit = pd.read_excel(..., header=1); credit.columns = [...];
\* cred_features = credit[[...]]; cred_labels = credit['default']
LoadCredit ==
    /\ pc = "load_credit"
    /\ IsFile(fs, CreditFile)
    /\ columns' = [columns EXCEPT !["credit"] = CreditColumns]
    /\ IF CanSelect(CreditColumns, CreditFeatures, CreditLabel)
          THEN /\ features' = [features EXCEPT !["credit"] = CreditFeatures]
               /\ labels' = [labels EXCEPT !["credit"] = CreditLabel]
               /\ pc' = "load_concrete"
               /\ UNCHANGED failedAt
          ELSE /\ Raise("select")
               /\ UNCHANGED <<features, labels>>
    /\ UNCHANGED <<fs, fs0, i, args, response, z, trace, written, got, plot, fitted>>

\* concrete = pd.read_excel(...); concrete.columns = [...];
\* conc_features = concrete[[...]]; conc_labels = concrete['strength']
LoadConcrete ==
    /\ pc = "load_concrete"
    /\ IsFile(fs, ConcreteFile)
    /\ columns' = [columns EXCEPT !["concrete"] = ConcreteColumns]
    /\ IF CanSelect(ConcreteColumns, ConcreteFeatures, ConcreteLabel)
          THEN /\ features' = [features EXCEPT !["concrete"] = ConcreteFeatures]
               /\ labels' = [labels EXCEPT !["concrete"] = ConcreteLabel]
               /\ pc' = "nb_done"
               /\ UNCHANGED failedAt
          ELSE /\ Raise("select")
               /\ UNCHANGED <<features, labels>>
    /\ UNCHANGED <<fs, fs0, i, args, response, z, trace, written, got, plot, fitted>>

\* a spreadsheet is missing, is no spreadsheet, or has another number of columns
LoadExerciseFail ==
    /\ pc \in {"load_credit", "load_concrete"}
    /\ Raise(pc)
    /\ UNCHANGED <<fs, fs0, i, args, response, z, trace, written, got,
                   tables, plot, fitted>>

---------------------------------------------------------------------------
(* The plotting notebook *)

notebook ==
    <<pc, failedAt, i, args, response, z, trace, written, got, tables, fitted>>

\* the cells up to the call of plt.savefig draw in memory only
PlotCells ==
    /\ ppc = "pp_start"
    /\ ppc' = "pp_savefig"
    /\ UNCHANGED <<fs, fs0, pwritten, notebook>>

\* a save that first makes the directory
SaveFigMakedirs ==
    /\ ppc = "pp_savefig"
    /\ LET g == IF Exists(fs, Parent(FigurePath)) THEN fs
                ELSE Put(fs, Parent(FigurePath), Dir)
       IN  IF CanOpenW(g, FigurePath)
              THEN /\ fs' = Put(g, FigurePath, File(RenderedImage))
                   /\ pwritten' = pwritten \cup {FigurePath}
                   /\ ppc' = "pp_done"
              ELSE /\ ppc' = "pp_aborted"
                   /\ UNCHANGED <<fs, pwritten>>
    /\ UNCHANGED <<fs0, notebook>>

\* plt.savefig("figures/quadratics.png") opens the file for writing; it makes
\* no directory.  The cells after it draw in memory only.
SaveFig ==
    /\ ppc = "pp_savefig"
    /\ IF CanOpenW(fs, FigurePath)
          THEN /\ fs' = Put(fs, FigurePath, File(RenderedImage))
               /\ pwritten' = pwritten \cup {FigurePath}
               /\ ppc' = "pp_done"
          ELSE /\ ppc' = "pp_aborted"
               /\ UNCHANGED <<fs, pwritten>>
    /\ UNCHANGED <<fs0, notebook>>

---------------------------------------------------------------------------
(* The model-fitting cells.  An estimator object is recorded with its      *)
(* class, its constructor arguments, the cell whose execution constructed  *)
(* it and the data it was fitted on; a printed value is recorded with the  *)
(* object it was read from.                                                *)

Estimator(class, params, cell) ==
    [class |-> class, params |-> params, cell |-> cell, fit |-> <<>>]

\* estimator.fit(X, y) fits the object in place
Fit(m, X, y) == [m EXCEPT !.fit = <<X, y>>]

\* SelectFromModel(model): the selector holds the estimator; its fit fits a
\* clone and leaves the object bound to model as it is
Selector(m, cell) ==
    [class |-> "SelectFromModel", params |-> "", cell |-> cell, fit |-> <<>>,
     estimator |-> m]

\* model.coef_, sfm.get_support(), estimator.transform(X): read from m
ReadFrom(m) == [by |-> m]

\* name = value
Bind(n, v, obj) == [n EXCEPT ![v] = obj]

Runnable == features["occupancy"] # <<>> /\ labels["occupancy"] # ""

\* model = <class>(<params>); model.fit(features, labels);
\* print(list(zip(features, model.coef_.tolist())))
RegressionCell(cell, class, params) ==
    /\ Runnable
    /\ LET n1 == Bind(kernel, "model", Estimator(class, params, cell))
           n2 == Bind(n1, "model",
                      Fit(n1["model"], features["occupancy"], labels["occupancy"]))
       IN  /\ kernel' = n2
           /\ out' = [cell |-> cell, value |-> ReadFrom(n2["model"])]
    /\ UNCHANGED <<fs, fs0, pc, failedAt, i, args, response, z, trace, written,
                   got, tables, plot>>

\* the cell without its first line: it fits and prints whatever model is
RegressionCellNoRebind(cell, class, params) ==
    /\ Runnable
    /\ LET n2 == Bind(kernel, "model",
                      Fit(kernel["model"], features["occupancy"], labels["occupancy"]))
       IN  /\ kernel' = n2
           /\ out' = [cell |-> cell, value |-> ReadFrom(n2["model"])]
    /\ UNCHANGED <<fs, fs0, pc, failedAt, i, args, response, z, trace, written,
                   got, tables, plot>>

\* model = <class>(); sfm = SelectFromModel(model); sfm.fit(features, labels);
\* print(list(features[sfm.get_support(indices=True)]))
SelectCell(cell, class, params) ==
    /\ Runnable
    /\ LET n1 == Bind(kernel, "model", Estimator(class, params, cell))
           n2 == Bind(n1, "sfm", Selector(n1["model"], cell))
           n3 == Bind(n2, "sfm",
                      Fit(n2["sfm"], features["occupancy"], labels["occupancy"]))
       IN  /\ kernel' = n3
           /\ out' = [cell |-> cell, value |-> ReadFrom(n3["sfm"])]
    /\ UNCHANGED <<fs, fs0, pc, failedAt, i, args, response, z, trace, written,
                   got, tables, plot>>

\* pca = PCA(n_components=2) or lda = LDA(n_components=2);
\* new_features = <name>.fit(features[, labels]).transform(features);
\* print(new_features)
TransformCell(cell, v, class, params, y) ==
    /\ Runnable
    /\ LET n1 == Bind(kernel, v, Estimator(class, params, cell))
           n2 == Bind(n1, v, Fit(n1[v], features["occupancy"], y))
           n3 == Bind(n2, "new_features", ReadFrom(n2[v]))
       IN  /\ kernel' = n3
           /\ out' = [cell |-> cell, value |-> n3["new_features"]]
    /\ UNCHANGED <<fs, fs0, pc, failedAt, i, args, response, z, trace, written,
                   got, tables, plot>>

LassoCell == RegressionCell("Lasso", "Lasso", "")
RidgeCellNoRebind == RegressionCellNoRebind("Ridge", "Ridge", "")
RidgeCell == RegressionCell("Ridge", "Ridge", "")
ElasticNetCell == RegressionCell("ElasticNet", "ElasticNet", "l1_ratio=0.10")
SelectLassoCell == SelectCell("SelectLasso", "Lasso", "")
SelectRidgeCell == SelectCell("SelectRidge", "Ridge", "")
SelectElasticNetCell == SelectCell("SelectElasticNet", "ElasticNet", "")
PCACell == TransformCell("PCA", "pca", "PCA", "n_components=2", "")
LDACell ==
    TransformCell("LDA", "lda", "LDA", "n_components=2", labels["occupancy"])

---------------------------------------------------------------------------
(* Specifications *)

DownloadData ==
    \/ DDEnsureDir
    \/ DDMkdirFail
    \/ DDRequest
    \/ GetReturn
    \/ GetRaise
    \/ DDOpen
    \/ DDOpenFail
    \/ DDWrite
    \/ DDWriteFail

DownloadAll ==
    \/ ForLoop
    \/ DownloadData
    \/ ZipOpen
    \/ ZipOpenFail
    \/ ExtractAll
    \/ ExtractFail

FeatureSelection ==
    \/ CallDownloadAll
    \/ DownloadAll
    \/ LoadOccupancy
    \/ LoadOccupancyFail
    \/ SelectOccupancy
    \/ LoadCredit
    \/ LoadConcrete
    \/ LoadExerciseFail

Plotting == PlotCells \/ SaveFig

Next == FeatureSelection \/ Plotting

\* both notebooks, each run top to bottom
Spec == Init /\ [][Next]_vars

\* one call download_data(url, name, path) on its own, for any arguments
CallUrls == {OCCUPANCY[1], CREDIT[1]}
CallNames == {"occupancy.zip", "credit.xls"}
CallPaths == {<<"data">>, <<"data", "occupancy">>}

InitCall ==
    /\ InitCommon
    /\ pc = "dd_dir"
    /\ i = 0
    /\ url \in CallUrls
    /\ name \in CallNames
    /\ path \in CallPaths
    /\ ppc = "pp_idle"

SpecCall == InitCall /\ [][DownloadData]_vars

\* the same run, where the interpreter keeps executing the notebook and every
\* request is eventually answered, by a response or by an exception
ProgramStep ==
    \/ CallDownloadAll
    \/ ForLoop
    \/ DDEnsureDir
    \/ DDRequest
    \/ DDOpen
    \/ DDWrite
    \/ ZipOpen
    \/ ExtractAll

ProgramRaises ==
    \/ DDMkdirFail
    \/ DDOpenFail
    \/ DDWriteFail
    \/ ZipOpenFail
    \/ ExtractFail

ServerAnswers == GetReturn \/ GetRaise

LiveSpec ==
    /\ Init
    /\ [][Next]_vars
    /\ WF_vars(ProgramStep \/ ProgramRaises)
    /\ WF_vars(ServerAnswers)

---------------------------------------------------------------------------
(* Claims *)

\* C1: when download_data(url, name, path) returns normally, the file
\* path/name holds exactly the bytes of the body of the response received for
\* url; whatever the file held before is gone.
C1_ExactBytes ==
    pc = "dd_returned" =>
        /\ IsFile(fs, Join(path, name))
        /\ fs[Join(path, name)].content = response.content
        /\ got[url] = response.content

\* a call that returned and replaced an older, different file
C1_Witness ==
    /\ pc = "dd_returned"
    /\ IsFile(fs0, Join(path, name))
    /\ Len(response.content) > 0
    /\ fs0[Join(path, name)].content # response.content
    /\ fs[Join(path, name)].content = response.content

\* what zipfile reports as the content of the member called n: the last
\* member of that name
RECURSIVE ZipRead(_, _, _)
ZipRead(zs, n, k) ==
    IF k = 0 THEN <<>>
    ELSE IF zs[k].name = n THEN zs[k].content
    ELSE ZipRead(zs, n, k - 1)

\* C2: when download_all(path) returns normally, path/occupancy.zip,
\* path/credit.xls and path/concrete.xls exist and each holds the body of the
\* response of its own URL, and path/occupancy holds every member of the
\* downloaded occupancy archive with the member's content.
C2_AllDownloaded ==
    pc = "returned" =>
        /\ IsFile(fs, Join(path, "occupancy.zip"))
        /\ fs[Join(path, "occupancy.zip")].content = got[OCCUPANCY[1]]
        /\ IsFile(fs, Join(path, "credit.xls"))
        /\ fs[Join(path, "credit.xls")].content = got[CREDIT[1]]
        /\ IsFile(fs, Join(path, "concrete.xls"))
        /\ fs[Join(path, "concrete.xls")].content = got[CONCRETE[1]]
        /\ IsZip(got[OCCUPANCY[1]])
        /\ LET zs == ZipMembers(got[OCCUPANCY[1]])
           IN  \A k \in 1..Len(zs) :
                  LET m == Join(Join(path, "occupancy"), zs[k].name)
                  IN  /\ IsFile(fs, m)
                      /\ fs[m].content = ZipRead(zs, zs[k].name, Len(zs))

\* download_all returned; the three bodies differ pairwise, the archive has a
\* member, and the member replaced an older extracted file
C2_Witness ==
    /\ pc = "returned"
    /\ got[OCCUPANCY[1]] # got[CREDIT[1]]
    /\ got[CREDIT[1]] # got[CONCRETE[1]]
    /\ Len(z) = 1
    /\ z[1].name = "datatraining.txt"
    /\ IsFile(fs0, <<"data", "occupancy", "datatraining.txt">>)
    /\ fs[<<"data", "occupancy", "datatraining.txt">>].content = z[1].content
    /\ fs[<<"data", "occupancy", "datatraining.txt">>].content # OldContent

\* C3: whenever download_data opens path/name for writing, the directory path
\* exists, and it exists after download_data returns; a call made when the
\* directory already exists does not fail because of that.
C3_DirectoryEnsured ==
    /\ pc \in {"dd_open", "dd_write", "dd_returned"} => IsDir(fs, path)
    /\ IsDir(fs0, path) => failedAt # "mkdir"

\* C4: a failure of any step of download_all is not caught or retried: the run
\* is aborted at that step, and after it nothing more is downloaded, written
\* or extracted and download_all does not return.
C4_FailureAborts ==
    /\ [](failedAt # "none" => pc = "aborted")
    /\ [][failedAt # "none" =>
             UNCHANGED <<pc, failedAt, i, trace, written, got, response, z>>]_vars
    /\ [][failedAt' # "none" /\ failedAt = "none" =>
             /\ pc' = "aborted"
             /\ failedAt' = CASE pc = "dd_dir" -> "mkdir"
                              [] pc = "dd_get" -> "get"
                              [] pc = "dd_open" -> "open"
                              [] pc = "dd_write" -> "write"
                              [] pc = "zip_open" -> "zip"
                              [] pc = "extract" -> "extract"
                              [] OTHER -> failedAt']_vars

\* the second GET raised: the run is aborted after the first download
C4_Witness ==
    /\ failedAt = "get"
    /\ pc = "aborted"
    /\ Len(trace) = 3
    /\ IsFile(fs, <<"data", "occupancy.zip">>)

FullTrace ==
    << <<"GET", "http://bit.ly/ddl-occupancy-dataset">>,
       <<"write", "occupancy.zip">>,
       <<"GET", "http://bit.ly/ddl-credit-dataset">>,
       <<"write", "credit.xls">>,
       <<"GET", "http://bit.ly/ddl-concrete-data">>,
       <<"write", "concrete.xls">>,
       <<"extract", "occupancy.zip">> >>

\* C5: the event trace of a run of download_all is a prefix of GET(occupancy),
\* write(occupancy.zip), GET(credit), write(credit.xls), GET(concrete),
\* write(concrete.xls), extract(occupancy.zip): every URL is requested at most
\* once, in that order, a request is in flight only between its GET and the
\* next event, and extraction comes after the three downloads.
C5_Sequential ==
    /\ Len(trace) <= Len(FullTrace)
    /\ trace = SubSeq(FullTrace, 1, Len(trace))
    /\ pc = "dd_get" => trace # <<>> /\ trace[Len(trace)] = <<"GET", url>>
    /\ pc \in {"dd_dir", "dd_request"} => Len(trace) = 2 * (i - 1)
    /\ pc \in {"zip_open", "extract"} => Len(trace) = 6

\* a run that went through all seven events
C5_Witness ==
    /\ pc = "returned"
    /\ trace = FullTrace

DownloadTargets ==
    { <<"data", "occupancy.zip">>, <<"data", "credit.xls">>,
      <<"data", "concrete.xls">> }

\* the paths whose entry is not what it was before the run
Changed(f, g) ==
    {p \in DOMAIN f \cup DOMAIN g :
        p \notin DOMAIN f \/ p \notin DOMAIN g \/ f[p] # g[p]}

UnderOccupancy(p) == Len(p) = 3 /\ SubSeq(p, 1, 2) = <<"data", "occupancy">>

\* where the feature-selection notebook may write: the data directory, the
\* three downloads in it, the subdirectory data/occupancy and what is in it
DataWrites(p) ==
    \/ p = <<"data">>
    \/ p \in DownloadTargets
    \/ p = <<"data", "occupancy">>
    \/ UnderOccupancy(p)

\* C6: every filesystem write of the feature-selection notebook lands under
\* the data directory: the three downloads directly in it, the extracted
\* members in data/occupancy; only the occupancy archive is extracted, and the
\* extraction leaves the three downloaded files as they are.
C6_WritesUnderData ==
    /\ [](\A p \in written : DataWrites(p))
    /\ [](\A p \in Changed(fs0, fs) : DataWrites(p) \/ p \in pwritten)
    /\ [](\A p \in written : IsFile(fs, p) /\ ~UnderOccupancy(p)
                                 => p \in DownloadTargets)
    /\ [](pc = "extract" =>
             /\ IsFile(fs, <<"data", "occupancy.zip">>)
             /\ z = ZipMembers(fs[<<"data", "occupancy.zip">>].content))
    /\ [][pc = "extract" =>
             \A p \in DownloadTargets :
                 /\ p \in DOMAIN fs <=> p \in DOMAIN fs'
                 /\ p \in DOMAIN fs => fs'[p] = fs[p]]_vars

\* a run that extracted a member called credit.xls, beside the download of
\* that name
C6_Witness ==
    /\ pc = "returned"
    /\ <<"data", "occupancy", "credit.xls">> \in written
    /\ <<"data", "credit.xls">> \in written
    /\ <<"data">> \in written

\* both notebooks ran to their last cell
Complete == pc = "nb_done" /\ ppc = "pp_done"

\* the files that exist now and did not exist before the run
NewFiles == {p \in FilesOf(fs) : p \notin DOMAIN fs0}

\* C7 as stated: after a complete run of both notebooks the files that exist
\* and did not exist before are exactly the three downloads and the image.
C7_OnlyDownloadsAndImage ==
    Complete =>
        NewFiles = DownloadTargets \cup {<<"figures", "quadratics.png">>}

\* C7 as amended: after a complete run of both notebooks the files that exist
\* and did not exist before are exactly those of the three downloads, the image
\* and the extracted members data/occupancy/<member> of the downloaded archive
\* that did not exist before.
C7_DownloadsMembersAndImage ==
    Complete =>
        NewFiles =
            (DownloadTargets \cup {<<"figures", "quadratics.png">>}
                \cup MemberPaths(<<"data", "occupancy">>,
                                 ZipMembers(got[OCCUPANCY[1]])))
            \ DOMAIN fs0

\* a complete run from a working directory that held only an empty figures
\* directory: five new files
C7_Witness ==
    /\ Complete
    /\ DOMAIN fs0 = {<<"figures">>}
    /\ NewFiles = DownloadTargets
                    \cup { <<"figures", "quadratics.png">>,
                           <<"data", "occupancy", "datatraining.txt">> }

Figures == <<"figures">>
Image == <<"figures", "quadratics.png">>

UnderFigures(p) == Len(p) >= 1 /\ p[1] = "figures"

\* C8 as stated: the plotting notebook saves exactly one image,
\* figures/quadratics.png, the save is its only filesystem write, and the save
\* succeeds whether or not the figures directory existed before the run.
C8_SavesFromAnyState ==
    /\ pwritten \subseteq {Image}
    /\ ppc = "pp_done" => pwritten = {Image} /\ IsFile(fs, Image)
    /\ ppc # "pp_aborted"

\* C8 as amended: the plotting notebook saves at most one image,
\* figures/quadratics.png, and the save is its only filesystem write; the
\* notebook never makes the figures directory, so the save succeeds only if
\* that directory existed before the run, and otherwise it aborts the cell and
\* nothing is written.
C8_SavesIntoExistingDirectory ==
    /\ pwritten \subseteq {Image}
    /\ \A p \in Changed(fs0, fs) : UnderFigures(p) => p = Image /\ p \in pwritten
    /\ ppc = "pp_done" =>
           /\ pwritten = {Image}
           /\ IsFile(fs, Image)
           /\ fs[Image].content = RenderedImage
           /\ IsDir(fs0, Figures)
    /\ ppc \notin {"pp_start", "pp_savefig"} /\ ~IsDir(fs0, Figures) =>
           /\ ppc = "pp_aborted"
           /\ pwritten = {}
           /\ ~IsDir(fs, Figures)

\* the image was saved into a figures directory that held no image before
C8_Witness ==
    /\ ppc = "pp_done"
    /\ IsDir(fs0, Figures)
    /\ Image \notin DOMAIN fs0
    /\ pwritten = {Image}
    /\ fs[Image].content = RenderedImage

NoDuplicates(s) == \A a, b \in 1..Len(s) : s[a] = s[b] => a = b

\* the leading identifier column of each table
Identifier(t) ==
    CASE t = "occupancy" -> {"date"}
      [] t = "credit" -> {"id"}
      [] t = "concrete" -> {}

\* C9: for each of the three tables, the features and the label are among the
\* column names assigned by position after load, the label is no feature, no
\* column name is assigned twice, and every assigned column is a feature, the
\* label or the leading identifier column (date, id, none).
C9_ColumnSubsets ==
    \A t \in Tables :
        /\ NoDuplicates(columns[t])
        /\ features[t] # <<>> =>
              /\ Range(features[t]) \subseteq Range(columns[t])
              /\ NoDuplicates(features[t])
              /\ labels[t] \in Range(columns[t])
              /\ labels[t] \notin Range(features[t])
              /\ Range(columns[t]) \ (Range(features[t]) \cup {labels[t]})
                     = Identifier(t)
              /\ Identifier(t) \subseteq {columns[t][1]}

\* the three tables are loaded and their features and labels selected
C9_Witness ==
    /\ pc = "nb_done"
    /\ \A t \in Tables : columns[t] # <<>> /\ features[t] # <<>> /\ labels[t] # ""
    /\ Len(columns["credit"]) = 25
    /\ Len(features["credit"]) = 23

InDownloadAll ==
    pc \in {"fetch", "loop", "dd_dir", "dd_request", "dd_get", "dd_open",
            "dd_write", "zip_open", "extract"}

Requests == {k \in 1..Len(trace) : trace[k][1] = "GET"}

\* C10: download_all is one loop over the three dataset tuples: when every GET
\* is eventually answered, by a response or an exception, download_all
\* eventually finishes (returns or aborts) having issued at most three
\* requests; a request in flight is left only by its answer, so a GET that is
\* never answered keeps the run at that step.
C10_Terminates ==
    /\ <>(~InDownloadAll)
    /\ [](Cardinality(Requests) <= 3 /\ i <= 4)
    /\ [][pc = "dd_get" /\ pc' # "dd_get" =>
             \/ pc' = "dd_open" /\ response' \in Responses(url)
             \/ pc' = "aborted" /\ failedAt' = "get"]_vars

\* download_all returned after three iterations
C10_Witness ==
    /\ pc = "returned"
    /\ Cardinality(Requests) = 3
    /\ i = 4

\* download_all has returned and the cells after the fetch are running
AfterFetch ==
    pc \in {"returned", "select", "load_credit", "load_concrete", "nb_done"}
        \/ (pc = "aborted" /\ failedAt \in {"load_occupancy", "select",
                                             "load_credit", "load_concrete"})

Loaded(t) == columns[t] # <<>>

HasMember(b, n) ==
    IsZip(b) /\ \E k \in 1..Len(ZipMembers(b)) : ZipMembers(b)[k].name = n

\* C11: in a top-to-bottom run in which download_all returned, every file a
\* later cell loads was written before, in the same run, by download_all:
\* data/credit.xls and data/concrete.xls always, data/occupancy/datatraining.txt
\* exactly when the downloaded archive has a member of that name; no table is
\* loaded before download_all returned, and the load paths are the download
\* and extraction targets under the path given to download_all.
C11_LoadsAfterFetch ==
    /\ \A t \in Tables : Loaded(t) => AfterFetch /\ trace = FullTrace
    /\ AfterFetch =>
          /\ <<"data", "credit.xls">> \in written
          /\ <<"data", "concrete.xls">> \in written
          /\ <<"data", "occupancy", "datatraining.txt">> \in written
                <=> HasMember(got[OCCUPANCY[1]], "datatraining.txt")
          /\ path = <<"data">>
    /\ Loaded("occupancy") => IsFile(fs, <<"data", "occupancy", "datatraining.txt">>)
    /\ Loaded("credit") =>
          /\ IsFile(fs, <<"data", "credit.xls">>)
          /\ fs[<<"data", "credit.xls">>].content = got[CREDIT[1]]
    /\ Loaded("concrete") =>
          /\ IsFile(fs, <<"data", "concrete.xls">>)
          /\ fs[<<"data", "concrete.xls">>].content = got[CONCRETE[1]]
    /\ OccupancyFile = Join(ExtractDir(path), "datatraining.txt")
    /\ CreditFile = Join(path, CREDIT[2])
    /\ ConcreteFile = Join(path, CONCRETE[2])

\* the three tables were loaded from files this run downloaded and extracted
C11_Witness ==
    /\ pc = "nb_done"
    /\ \A t \in Tables : Loaded(t)
    /\ ~Exists(fs0, <<"data">>)
    /\ <<"data", "occupancy", "datatraining.txt">> \in written
    /\ HasMember(got[OCCUPANCY[1]], "datatraining.txt")

\* the entry of p is the same in f and in g (absent in both, or equal)
SameEntry(f, g, p) ==
    (p \in DOMAIN f <=> p \in DOMAIN g) /\ (p \in DOMAIN f => f[p] = g[p])

\* the targets of the download_data calls that returned before call k
Completed(k) == {Join(path, Datasets[j][2]) : j \in 1..(k - 1)}

\* C12: when the GET inside download_data raises, path/name is as it was
\* before the call, neither created nor truncated; the failed call has at
\* most created the directory path; and in download_all the files of the
\* downloads completed before the failure keep the bodies they received.
C12_FailedGetLeavesFile ==
    failedAt = "get" =>
        /\ SameEntry(fs0, fs, Join(path, name))
        /\ \A j \in 1..(i - 1) :
              /\ IsFile(fs, Join(path, Datasets[j][2]))
              /\ fs[Join(path, Datasets[j][2])].content = got[Datasets[j][1]]
        /\ \A p \in Changed(fs0, fs) :
              p = path \/ p \in Completed(i) \/ UnderFigures(p)
        /\ path \in Changed(fs0, fs) => ~Exists(fs0, path) /\ IsDir(fs, path)
        /\ i = 1 => written \subseteq {path}

\* the GET for credit.xls raised: the old data/credit.xls is untouched and
\* the occupancy.zip downloaded just before replaced the old one
C12_Witness ==
    /\ failedAt = "get"
    /\ i = 2
    /\ IsFile(fs0, <<"data", "credit.xls">>)
    /\ fs[<<"data", "credit.xls">>] = fs0[<<"data", "credit.xls">>]
    /\ IsFile(fs0, <<"data", "occupancy.zip">>)
    /\ fs[<<"data", "occupancy.zip">>] # fs0[<<"data", "occupancy.zip">>]
    /\ fs[<<"data", "occupancy.zip">>].content = got[OCCUPANCY[1]]

\* the call whose response is held in the variable response: the one in
\* progress after its GET, or the last one that returned
LastCall ==
    IF pc \in {"dd_open", "dd_write"} THEN i
    ELSE IF pc = "loop" THEN i - 1
    ELSE 3

\* C14: download_data never reads the status of the response. A GET fails
\* only by raising, never by the response it returned; a response of any
\* status is followed by the opening of path/name, its body is what the call
\* leaves in the file when it returns; download_all goes on to the next
\* dataset, and aborts at the opening of the archive, after the three
\* downloads, only when the occupancy body is no zip archive.
C14_StatusIgnored ==
    /\ failedAt = "get" => url \notin DOMAIN got
    /\ pc \in {"dd_open", "dd_write"} =>
          /\ response \in Responses(url)
          /\ got[url] = response.content
          /\ failedAt = "none"
    /\ (pc = "loop" /\ i > 1) \/ pc \in {"zip_open", "extract", "returned"} =>
          /\ response \in Responses(Datasets[LastCall][1])
          /\ IsFile(fs, Join(path, Datasets[LastCall][2]))
          /\ fs[Join(path, Datasets[LastCall][2])].content = response.content
          /\ failedAt = "none"
    /\ failedAt = "zip" =>
          /\ Len(trace) = 6
          /\ DOMAIN got = {OCCUPANCY[1], CREDIT[1], CONCRETE[1]}
    /\ pc \in {"extract", "returned"} => IsZip(got[OCCUPANCY[1]])

\* the response for concrete.xls had status 404 and download_all returned
\* with its body in data/concrete.xls
C14_Witness ==
    /\ pc = "returned"
    /\ response.status = 404
    /\ response.content # <<>>
    /\ fs[<<"data", "concrete.xls">>].content = response.content

---------------------------------------------------------------------------
(* download_all called again after it returned, against servers that       *)
(* answer each url with the body they answered before.  Only the failures  *)
(* that the state of the filesystem forces are taken here: a step raises   *)
(* when it cannot be done, and not otherwise.  (os.mkdir is reached only   *)
(* when path does not exist, and 'data' has no parent that could miss.)    *)

RunNo == 1 + Cardinality({k \in 1..Len(trace) : trace[k][1] = "call"})

\* the cell is run again: download_all(path) starts over
Rerun ==
    /\ pc = "returned"
    /\ RunNo < MaxRuns
    /\ pc' = "loop"
    /\ i' = 1
    /\ fs0' = fs
    /\ written' = {}
    /\ trace' = Append(trace, <<"call", "download_all">>)
    /\ UNCHANGED <<fs, failedAt, args, response, z, got, tables, plot, fitted>>

\* the server answers a url it answered before with the same body
GetReturnSame ==
    /\ GetReturn
    /\ url \in DOMAIN got => response'.content = got[url]

DDOpenRaises == DDOpenFail /\ ~CanOpenW(fs, Target)

ZipOpenRaises ==
    /\ ZipOpenFail
    /\ ~IsFile(fs, Archive) \/ ~IsZip(fs[Archive].content)

ExtractRaises ==
    /\ ExtractFail
    /\ ~(CanMakedirs(fs, ExtractDir(path)) /\ CanExtract(fs, ExtractDir(path), z))

NextRerun ==
    \/ CallDownloadAll
    \/ ForLoop
    \/ DDEnsureDir
    \/ DDRequest
    \/ GetReturnSame
    \/ DDOpen
    \/ DDOpenRaises
    \/ DDWrite
    \/ ZipOpen
    \/ ZipOpenRaises
    \/ ExtractAll
    \/ ExtractRaises
    \/ Rerun

InitRerun ==
    /\ InitCommon
    /\ pc = "fetch"
    /\ i = 1
    /\ url = ""
    /\ name = ""
    /\ path = NotebookPath
    /\ ppc = "pp_idle"

SpecRerun == InitRerun /\ [][NextRerun]_vars

\* C13: download_all is idempotent against servers that return the same
\* bodies: a run that follows a run that returned never raises because of
\* what is already on disk and can always take its next step until it
\* returns; when it returns the filesystem is the one the run before left,
\* each file holding the body once (overwritten, not appended to).
C13_Idempotent ==
    RunNo >= 2 =>
        /\ failedAt = "none"
        /\ pc # "aborted"
        /\ pc = "returned" \/ ENABLED NextRerun
        /\ pc = "returned" =>
              /\ fs = fs0
              /\ \A j \in 1..Len(Datasets) :
                    fs[Join(path, Datasets[j][2])] = File(got[Datasets[j][1]])

\* the second run returned over the files and the member of the first
C13_Witness ==
    /\ RunNo = 2
    /\ pc = "returned"
    /\ fs = fs0
    /\ Len(trace) = 15
    /\ fs[<<"data", "occupancy.zip">>].content # <<>>
    /\ IsFile(fs, <<"data", "occupancy", "datatraining.txt">>)
    /\ <<"data", "occupancy", "datatraining.txt">> \in written

---------------------------------------------------------------------------
(* The model-fitting cells run in any order, any number of times, in a     *)
(* kernel where the cells defining features and labels have run (over data *)
(* fetched in an earlier session).                                         *)

FitCells ==
    \/ LassoCell
    \/ RidgeCell
    \/ ElasticNetCell
    \/ SelectLassoCell
    \/ SelectRidgeCell
    \/ SelectElasticNetCell
    \/ PCACell
    \/ LDACell

InitCells ==
    /\ fs \in {f \in InitialFilesystems : IsFile(f, OccupancyFile)}
    /\ fs0 = fs
    /\ pc = "load_credit"
    /\ failedAt = "none"
    /\ i = 1
    /\ url = ""
    /\ name = ""
    /\ path = NotebookPath
    /\ response = NoResponse
    /\ z = <<>>
    /\ trace = <<>>
    /\ written = {}
    /\ got = EmptyFS
    /\ columns = [NoTables EXCEPT !["occupancy"] = OccupancyColumns]
    /\ features = [NoTables EXCEPT !["occupancy"] = OccupancyFeatures]
    /\ labels = [NoLabels EXCEPT !["occupancy"] = OccupancyLabel]
    /\ ppc = "pp_idle"
    /\ pwritten = {}
    /\ kernel = NoBindings
    /\ out = NoOutput

SpecCells == InitCells /\ [][FitCells]_vars

\* the class and the arguments of the estimator each cell constructs
CellEstimator ==
    [Lasso |-> <<"Lasso", "">>,
     Ridge |-> <<"Ridge", "">>,
     ElasticNet |-> <<"ElasticNet", "l1_ratio=0.10">>,
     SelectLasso |-> <<"Lasso", "">>,
     SelectRidge |-> <<"Ridge", "">>,
     SelectElasticNet |-> <<"ElasticNet", "">>,
     PCA |-> <<"PCA", "n_components=2">>,
     LDA |-> <<"LDA", "n_components=2">>]

SelectCells == {"SelectLasso", "SelectRidge", "SelectElasticNet"}

\* the estimator of the cell's own constructor call behind a printed value
Constructed(m) ==
    IF m.class = "SelectFromModel" THEN m.estimator ELSE m

\* C15: once features and labels are defined, whatever cells ran before and
\* however often, the value a model-fitting cell prints is read from the
\* object that this execution of the cell constructed and fitted on features
\* (and labels): no cell reads an unbound name or an object another cell
\* left in model, sfm, pca, lda or new_features.
C15_PrintsOwnEstimator ==
    out.cell # "none" =>
        LET m == out.value.by
        IN  /\ m # Unbound
            /\ m.cell = out.cell
            /\ m.fit # <<>>
            /\ m.fit[1] = OccupancyFeatures
            /\ m.fit[2] \in {OccupancyLabel, ""}
            /\ (m.class = "SelectFromModel") <=> (out.cell \in SelectCells)
            /\ Constructed(m).cell = out.cell
            /\ <<Constructed(m).class, Constructed(m).params>>
                  = CellEstimator[out.cell]

\* the Ridge cell printed its own coefficients although the name model was
\* last bound by another cell before, and new_features by the LDA cell
C15_Witness ==
    /\ out.cell = "Ridge"
    /\ out.value.by.cell = "Ridge"
    /\ kernel["sfm"] # Unbound
    /\ kernel["sfm"].cell = "SelectElasticNet"
    /\ kernel["sfm"].estimator.class = "ElasticNet"
    /\ kernel["new_features"] # Unbound
    /\ kernel["new_features"].by.cell = "LDA"
    /\ kernel["pca"] # Unbound

=============================================================================
